---- MODULE Spec2Model ----
(***************************************************************************)
(* Status tracker of one FaaSr function (framework/faasr_function.py):     *)
(* the log source's thread delivers LOG_CREATED / LOG_UPDATED /            *)
(* LOG_COMPLETE to _on_log_event, a caller thread forces a status with     *)
(* set_status, reader threads poll the status and invocations properties.  *)
(* Texts are sequences of one-character strings so that the two regular    *)
(* expressions and the key derivation are computed, not assumed.           *)
(***************************************************************************)
EXTENDS Integers, Sequences, FiniteSets, TLC

----------------------------------------------------------------------------
(* Bounds *)

MaxLines == 1
MaxUpdates == 2
MaxOverrides == 1
MaxTextLines == 2

----------------------------------------------------------------------------
(* framework/utils/enums.py, framework/utils/utils.py *)

FunctionStatus ==
    {"PENDING", "INVOKED", "NOT_INVOKED", "RUNNING",
     "COMPLETED", "FAILED", "SKIPPED", "TIMEOUT"}

LogEvent == {"LOG_CREATED", "LOG_UPDATED", "LOG_COMPLETE"}

completed(s) == s = "COMPLETED"
not_invoked(s) == s = "NOT_INVOKED"
failed(s) == s = "FAILED"
timed_out(s) == s = "TIMEOUT"
skipped(s) == s = "SKIPPED"

has_completed(s) == completed(s) \/ not_invoked(s)

\* the predicate without its timed_out disjunct
has_final_state_without_timeout(s) ==
    completed(s) \/ not_invoked(s) \/ failed(s) \/ skipped(s)

has_final_state(s) ==
    completed(s) \/ not_invoked(s) \/ failed(s) \/ timed_out(s) \/ skipped(s)

----------------------------------------------------------------------------
(* Text helpers *)

Digits == {"0", "1", "2", "3", "4", "5", "6", "7", "8", "9"}

Letters ==
    {"a", "b", "c", "d", "e", "f", "g", "h", "i", "j", "k", "l", "m",
     "n", "o", "p", "q", "r", "s", "t", "u", "v", "w", "x", "y", "z",
     "A", "B", "C", "D", "E", "F", "G", "H", "I", "J", "K", "L", "M",
     "N", "O", "P", "Q", "R", "S", "T", "U", "V", "W", "X", "Y", "Z"}

\* t[i..j], empty when j < i
Slice(t, i, j) == [k \in 1..(j - i + 1) |-> t[i + k - 1]]

\* the literal lit occurs in t starting at position i
HasLiteralAt(t, i, lit) ==
    /\ i >= 1
    /\ i + Len(lit) - 1 <= Len(t)
    /\ \A k \in 1..Len(lit) : t[i + k - 1] = lit[k]

\* str.replace(old, new) for a one-character old and a new of length 0 or 1
RECURSIVE replace(_, _, _)
replace(s, old, new) ==
    IF s = <<>> THEN <<>>
    ELSE (IF Head(s) = old THEN new ELSE <<Head(s)>>)
         \o replace(Tail(s), old, new)

\* "\n".join(lines)
RECURSIVE join(_)
join(lines) ==
    IF lines = <<>> THEN <<>>
    ELSE IF Len(lines) = 1 THEN Head(lines)
    ELSE Head(lines) \o <<"\n">> \o join(Tail(lines))

----------------------------------------------------------------------------
(* failed_regex = \[[\d\.]+?\] \[ERROR\] *)

ErrorTail == <<"]", " ", "[", "E", "R", "R", "O", "R", "]">>

\* the pattern with an optional timestamp: \[[\d\.]*?\] \[ERROR\]
failed_regex_match_at_empty(t, i) ==
    /\ i <= Len(t)
    /\ t[i] = "["
    /\ \E k \in 0..Len(t) :
          /\ i + k <= Len(t)
          /\ \A j \in 1..k : t[i + j] \in Digits \cup {"."}
          /\ HasLiteralAt(t, i + k + 1, ErrorTail)

failed_regex_match_at(t, i) ==
    /\ i <= Len(t)
    /\ t[i] = "["
    /\ \E k \in 1..Len(t) :
          /\ i + k <= Len(t)
          /\ \A j \in 1..k : t[i + j] \in Digits \cup {"."}
          /\ HasLiteralAt(t, i + k + 1, ErrorTail)

failed_regex_search(t) == \E i \in 1..Len(t) : failed_regex_match_at(t, i)

----------------------------------------------------------------------------
(* invoked_regex =                                                         *)
(* (?<=\[scheduler.py\] GitHub Action: Successfully invoked: )             *)
(*   [a-zA-Z][a-zA-Z0-9\-]+                                                *)

\* the look-behind; its "." is unescaped and matches any character but "\n"
InvokedPrefix ==
    <<"[", "s", "c", "h", "e", "d", "u", "l", "e", "r", "ANY", "p", "y", "]",
      " ", "G", "i", "t", "H", "u", "b", " ", "A", "c", "t", "i", "o", "n",
      ":", " ", "S", "u", "c", "c", "e", "s", "s", "f", "u", "l", "l", "y",
      " ", "i", "n", "v", "o", "k", "e", "d", ":", " ">>

TokenChars == Letters \cup Digits \cup {"-"}

\* the look-behind holds for a match starting at position i
invoked_lookbehind(t, i) ==
    /\ i - Len(InvokedPrefix) >= 1
    /\ \A k \in 1..Len(InvokedPrefix) :
          LET c == t[i - Len(InvokedPrefix) + k - 1]
          IN  IF InvokedPrefix[k] = "ANY" THEN c # "\n"
              ELSE c = InvokedPrefix[k]

\* last position of the greedy run of token characters that starts at i
RECURSIVE token_end(_, _)
token_end(t, i) ==
    IF i + 1 <= Len(t) /\ t[i + 1] \in TokenChars
    THEN token_end(t, i + 1)
    ELSE i

invoked_regex_match_at(t, i) ==
    /\ i + 1 <= Len(t)
    /\ t[i] \in Letters
    /\ t[i + 1] \in TokenChars
    /\ invoked_lookbehind(t, i)

\* findall scans left to right: the next match is the leftmost one at or
\* after i, and the scan resumes after its end
RECURSIVE invoked_regex_findall_from(_, _)
invoked_regex_findall_from(t, i) ==
    LET starts == {j \in i..Len(t) : invoked_regex_match_at(t, j)}
    IN  IF starts = {} THEN {}
        ELSE LET j == CHOOSE m \in starts : \A n \in starts : m <= n
             IN  {Slice(t, j, token_end(t, j))}
                 \cup invoked_regex_findall_from(t, token_end(t, j) + 1)

invoked_regex_findall(t) == invoked_regex_findall_from(t, 1)

\* the invocation kept with its workflow prefix
strip_workflow_prefix_kept(wf, invocation) == invocation

\* re.sub("^" + workflow_name + "-", "", invocation)
strip_workflow_prefix(wf, invocation) ==
    IF HasLiteralAt(invocation, 1, wf \o <<"-">>)
    THEN Slice(invocation, Len(wf) + 2, Len(invocation))
    ELSE invocation

extract_invocations(wf, logs_content) ==
    {strip_workflow_prefix(wf, inv) : inv \in invoked_regex_findall(logs_content)}

----------------------------------------------------------------------------
(* The tracked function and its collaborators *)

workflow_name == <<"w", "f">>

get_s3_path(key) == replace(key, "\\", <<"/">>)

\* the key derivation forgetting to remove ")"
done_key_of_keeping_paren(folder, name) ==
    LET s3_function_name == replace(name, "(", <<".">>)
    IN  get_s3_path(folder
                    \o <<"/", "f", "u", "n", "c", "t", "i", "o", "n", "_",
                         "c", "o", "m", "p", "l", "e", "t", "i", "o", "n",
                         "s", "/">>
                    \o s3_function_name
                    \o <<".", "d", "o", "n", "e">>)

done_key_of(folder, name) ==
    LET s3_function_name == replace(replace(name, "(", <<".">>), ")", <<>>)
    IN  get_s3_path(folder
                    \o <<"/", "f", "u", "n", "c", "t", "i", "o", "n", "_",
                         "c", "o", "m", "p", "l", "e", "t", "i", "o", "n",
                         "s", "/">>
                    \o s3_function_name
                    \o <<".", "d", "o", "n", "e">>)

\* the marker object the remote function f(2) writes when it finishes:
\* run1/function_completions/f.2.done
MarkerKeys ==
    {<<"r", "u", "n", "1", "/", "f", "u", "n", "c", "t", "i", "o", "n", "_",
       "c", "o", "m", "p", "l", "e", "t", "i", "o", "n", "s", "/",
       "f", ".", "2", ".", "d", "o", "n", "e">>}

\* lines the remote function may append to its log
LogLines == {"error", "invoked"}

\* further lines a log may hold when the tracker is pointed at it
TextLines ==
    LogLines \cup {"malformed", "invoked_bare", "invoked_short",
                   "invoked_other", "invoked_dot", "empty_ts", "nondigit_ts",
                   "dots_ts", "nested_ts"}

LineText(l) ==
    CASE l = "error" ->
           <<"[", "1", ".", "2", "]", " ", "[", "E", "R", "R", "O", "R",
             "]", " ", "x">>
      [] l = "malformed" ->
           <<"1", ".", "2", "]", " ", "[", "E", "R", "R", "O", "R", "]">>
      [] l = "invoked" ->
           <<"[", "3", "]", " ", "[", "I", "N", "F", "O", "]", " ", "[",
             "s", "c", "h", "e", "d", "u", "l", "e", "r", ".", "p", "y",
             "]", " ", "G", "i", "t", "H", "u", "b", " ", "A", "c", "t",
             "i", "o", "n", ":", " ", "S", "u", "c", "c", "e", "s", "s",
             "f", "u", "l", "l", "y", " ", "i", "n", "v", "o", "k", "e",
             "d", ":", " ", "w", "f", "-", "t", "a">>
      [] l = "invoked_bare" ->
           <<"[", "s", "c", "h", "e", "d", "u", "l", "e", "r", ".", "p",
             "y", "]", " ", "G", "i", "t", "H", "u", "b", " ", "A", "c",
             "t", "i", "o", "n", ":", " ", "S", "u", "c", "c", "e", "s",
             "s", "f", "u", "l", "l", "y", " ", "i", "n", "v", "o", "k",
             "e", "d", ":", " ", "t", "b">>
      [] l = "invoked_short" ->
           <<"[", "s", "c", "h", "e", "d", "u", "l", "e", "r", ".", "p",
             "y", "]", " ", "G", "i", "t", "H", "u", "b", " ", "A", "c",
             "t", "i", "o", "n", ":", " ", "S", "u", "c", "c", "e", "s",
             "s", "f", "u", "l", "l", "y", " ", "i", "n", "v", "o", "k",
             "e", "d", ":", " ", "a">>
      [] l = "invoked_other" ->
           <<"S", "u", "c", "c", "e", "s", "s", "f", "u", "l", "l", "y",
             " ", "i", "n", "v", "o", "k", "e", "d", ":", " ", "w", "f",
             "-", "t", "c">>
      [] l = "invoked_dot" ->
           <<"[", "s", "c", "h", "e", "d", "u", "l", "e", "r", "x", "p",
             "y", "]", " ", "G", "i", "t", "H", "u", "b", " ", "A", "c",
             "t", "i", "o", "n", ":", " ", "S", "u", "c", "c", "e", "s",
             "s", "f", "u", "l", "l", "y", " ", "i", "n", "v", "o", "k",
             "e", "d", ":", " ", "w", "f", "-", "t", "e">>
      [] l = "empty_ts" ->
           <<"[", "]", " ", "[", "E", "R", "R", "O", "R", "]", " ", "x">>
      [] l = "nondigit_ts" ->
           <<"[", "1", "a", "]", " ", "[", "E", "R", "R", "O", "R", "]",
             " ", "x">>
      [] l = "dots_ts" ->
           <<"a", "b", " ", "[", ".", ".", "]", " ", "[", "E", "R", "R",
             "O", "R", "]">>
      [] l = "nested_ts" ->
           <<"[", "x", "[", "1", "2", "]", " ", "[", "E", "R", "R", "O",
             "R", "]">>

Readers == {"r1", "r2"}
Writers == {"logger", "caller"}
Threads == Writers \cup Readers

\* Optional values: None, or Some(v)
None == <<>>
Some(v) == <<v>>

----------------------------------------------------------------------------
VARIABLES
    function_name,    \* self.function_name
    invocation_folder,\* self.invocation_folder
    _status,          \* self._status
    _invocations,     \* self._invocations: None or Some(set of names)
    _lock,            \* self._lock: "free" or the thread that holds it
    pc,               \* position of each thread
    arg,              \* the status argument of a thread's set_status call
    event,            \* the event the log source's thread handles (handled last)
    local_logs,       \* logs_content as read by _extract_invocations
    entry,            \* _status and marker presence when the handler was entered
    wrote,            \* status written by the current handler run, or "none"
    consulted,        \* the current handler run called object_exists
    raised,           \* the last handler run ended by raising S3ClientError
    logs,             \* log source: lines retrieved so far
    log_created,      \* log source: LOG_CREATED was emitted
    logs_complete,    \* log source: LOG_COMPLETE was emitted
    stop_called,      \* log source: stop() was called
    updates,          \* log source: number of LOG_UPDATED events emitted
    store,            \* keys that exist in the bucket
    overrides,        \* number of set_status calls made by the caller
    seen,             \* last value each reader got from the status property
    seen_invocations, \* Some(last value each reader got from invocations)
    window,           \* status values held since a reader's pending call began
    last_writer,      \* who wrote _status last
    completions       \* number of handler writes of COMPLETED

vars ==
    <<function_name, invocation_folder,
      _status, _invocations, _lock, pc, arg, event, local_logs, entry, wrote,
      consulted, raised, logs, log_created, logs_complete, stop_called,
      updates, store, overrides, seen, seen_invocations, window, last_writer,
      completions>>

identity_vars == <<function_name, invocation_folder>>
tracker_vars == <<_status, _invocations, _lock>>
handler_vars == <<event, local_logs, entry, wrote, consulted, raised>>
logger_vars == <<logs, log_created, logs_complete, stop_called, updates>>
reader_vars == <<seen, seen_invocations>>
history_vars == <<window, last_writer, completions>>

NoEntry == [status |-> "none", marker |-> FALSE]

done_key == done_key_of(invocation_folder, function_name)

\* the log source's accumulated text
logs_content == join([i \in 1..Len(logs) |-> LineText(logs[i])])

\* a tracker constructed with status INVOKED instead of PENDING
Init_invoked ==
    /\ function_name = <<"f", "(", "2", ")">>
    /\ invocation_folder = <<"r", "u", "n", "1">>
    /\ _status = "INVOKED"
    /\ _invocations = None
    /\ _lock = "free"
    /\ pc = [t \in Threads |-> "idle"]
    /\ arg = [t \in Writers |-> "PENDING"]
    /\ event = "none"
    /\ local_logs = <<>>
    /\ entry = NoEntry
    /\ wrote = "none"
    /\ consulted = FALSE
    /\ raised = FALSE
    /\ logs = <<>>
    /\ log_created = FALSE
    /\ logs_complete = FALSE
    /\ stop_called = FALSE
    /\ updates = 0
    /\ store = {}
    /\ overrides = 0
    /\ seen = [r \in Readers |-> "unread"]
    /\ seen_invocations = [r \in Readers |-> None]
    /\ window = [r \in Readers |-> {}]
    /\ last_writer = "init"
    /\ completions = 0

Init ==
    /\ function_name = <<"f", "(", "2", ")">>
    /\ invocation_folder = <<"r", "u", "n", "1">>
    /\ _status = "PENDING"
    /\ _invocations = None
    /\ _lock = "free"
    /\ pc = [t \in Threads |-> "idle"]
    /\ arg = [t \in Writers |-> "PENDING"]
    /\ event = "none"
    /\ local_logs = <<>>
    /\ entry = NoEntry
    /\ wrote = "none"
    /\ consulted = FALSE
    /\ raised = FALSE
    /\ logs = <<>>
    /\ log_created = FALSE
    /\ logs_complete = FALSE
    /\ stop_called = FALSE
    /\ updates = 0
    /\ store = {}
    /\ overrides = 0
    /\ seen = [r \in Readers |-> "unread"]
    /\ seen_invocations = [r \in Readers |-> None]
    /\ window = [r \in Readers |-> {}]
    /\ last_writer = "init"
    /\ completions = 0

\* the fields and bookkeeping right after __init__, whatever the identity
\* of the tracked function and the log it is pointed at
Constructed ==
    /\ _status = "PENDING"
    /\ _invocations = None
    /\ _lock = "free"
    /\ pc = [t \in Threads |-> "idle"]
    /\ arg = [t \in Writers |-> "PENDING"]
    /\ event = "none"
    /\ local_logs = <<>>
    /\ entry = NoEntry
    /\ wrote = "none"
    /\ consulted = FALSE
    /\ raised = FALSE
    /\ log_created = FALSE
    /\ logs_complete = FALSE
    /\ stop_called = FALSE
    /\ updates = 0
    /\ store = {}
    /\ overrides = 0
    /\ seen = [r \in Readers |-> "unread"]
    /\ seen_invocations = [r \in Readers |-> None]
    /\ window = [r \in Readers |-> {}]
    /\ last_writer = "init"
    /\ completions = 0

\* logs of at most n lines
TextsUpTo(n) == UNION {[1..k -> TextLines] : k \in 0..n}

\* the tracker is constructed on a function whose log already holds text
InitTexts ==
    /\ function_name = <<"f", "(", "2", ")">>
    /\ invocation_folder = <<"r", "u", "n", "1">>
    /\ logs \in TextsUpTo(MaxTextLines)
    /\ Constructed

\* function names and run folders a tracker may be constructed with
Names ==
    {<<"f">>, <<"f", "(", "2", ")">>, <<"f", ".", "2">>,
     <<"f", "(", "1", ")">>, <<"g", "\\", "h">>, <<"g", "/", "h">>}

Folders == {<<"r", "u", "n", "1">>, <<"d", "\\", "r">>}

\* the tracker is constructed on any of these functions
InitKeys ==
    /\ function_name \in Names
    /\ invocation_folder \in Folders
    /\ logs = <<>>
    /\ Constructed

----------------------------------------------------------------------------
(* The log source (framework/faasr_function_logger.py) and the store *)

\* the log source's polling thread retrieves one more line between events
logger_fetch ==
    /\ pc["logger"] = "idle"
    /\ ~stop_called
    /\ ~logs_complete
    /\ Len(logs) < MaxLines
    /\ \E l \in LogLines : logs' = Append(logs, l)
    /\ UNCHANGED <<tracker_vars, pc, arg, handler_vars, log_created,
                   logs_complete, stop_called, updates, store, identity_vars,
                   overrides, reader_vars, history_vars>>

\* events come in the order: optional created, updated*, complete;
\* none after stop()
can_emit(e) ==
    /\ pc["logger"] = "idle"
    /\ ~stop_called
    /\ ~logs_complete
    /\ e = "LOG_CREATED" => ~log_created /\ updates = 0
    /\ e = "LOG_UPDATED" => updates < MaxUpdates

\* the remote function finishes and writes its marker object
put_marker ==
    /\ \E k \in MarkerKeys \ store : store' = store \cup {k}
    /\ UNCHANGED <<identity_vars, tracker_vars, pc, arg, handler_vars,
                   logger_vars, overrides, reader_vars, history_vars>>

\* FaaSrS3Client.object_exists when head_object succeeds or answers 404
object_exists(key) == key \in store

----------------------------------------------------------------------------
(* FaaSrFunction *)

\* the dispatch with _handle_log_created setting INVOKED instead of RUNNING
_on_log_event_invoked(e) ==
    /\ can_emit(e)
    /\ event' = e
    /\ entry' = [status |-> _status, marker |-> object_exists(done_key)]
    /\ wrote' = "none"
    /\ consulted' = FALSE
    /\ raised' = FALSE
    /\ log_created' = (log_created \/ e = "LOG_CREATED")
    /\ logs_complete' = (e = "LOG_COMPLETE")
    /\ updates' = IF e = "LOG_UPDATED" THEN updates + 1 ELSE updates
    /\ pc' = [pc EXCEPT !["logger"] =
                CASE e = "LOG_CREATED" -> "set_status_acquire"
                  [] e = "LOG_UPDATED" -> "check_for_failure"
                  [] e = "LOG_COMPLETE" -> "extract_read"]
    /\ arg' = IF e = "LOG_CREATED"
              THEN [arg EXCEPT !["logger"] = "INVOKED"]
              ELSE arg
    /\ UNCHANGED <<tracker_vars, local_logs, logs, stop_called, store,
                   identity_vars, overrides, reader_vars, history_vars>>

\* the dispatch with _handle_log_updated extracting the invocations too
_on_log_event_extract_on_update(e) ==
    /\ can_emit(e)
    /\ event' = e
    /\ entry' = [status |-> _status, marker |-> object_exists(done_key)]
    /\ wrote' = "none"
    /\ consulted' = FALSE
    /\ raised' = FALSE
    /\ log_created' = (log_created \/ e = "LOG_CREATED")
    /\ logs_complete' = (e = "LOG_COMPLETE")
    /\ updates' = IF e = "LOG_UPDATED" THEN updates + 1 ELSE updates
    /\ pc' = [pc EXCEPT !["logger"] =
                CASE e = "LOG_CREATED" -> "set_status_acquire"
                  [] e = "LOG_UPDATED" -> "extract_read"
                  [] e = "LOG_COMPLETE" -> "extract_read"]
    /\ arg' = IF e = "LOG_CREATED"
              THEN [arg EXCEPT !["logger"] = "RUNNING"]
              ELSE arg
    /\ UNCHANGED <<tracker_vars, local_logs, logs, stop_called, store,
                   identity_vars, overrides, reader_vars, history_vars>>

\* the dispatch taking self._lock around the whole handler
_on_log_event_holding_lock(e) ==
    /\ can_emit(e)
    /\ _lock = "free"
    /\ _lock' = "logger"
    /\ event' = e
    /\ entry' = [status |-> _status, marker |-> object_exists(done_key)]
    /\ wrote' = "none"
    /\ consulted' = FALSE
    /\ raised' = FALSE
    /\ log_created' = (log_created \/ e = "LOG_CREATED")
    /\ logs_complete' = (e = "LOG_COMPLETE")
    /\ updates' = IF e = "LOG_UPDATED" THEN updates + 1 ELSE updates
    /\ pc' = [pc EXCEPT !["logger"] =
                CASE e = "LOG_CREATED" -> "set_status_acquire"
                  [] e = "LOG_UPDATED" -> "check_for_failure"
                  [] e = "LOG_COMPLETE" -> "extract_read"]
    /\ arg' = IF e = "LOG_CREATED"
              THEN [arg EXCEPT !["logger"] = "RUNNING"]
              ELSE arg
    /\ UNCHANGED <<_status, _invocations, local_logs, logs, stop_called,
                   store, identity_vars, overrides, reader_vars,
                   history_vars>>

\* the dispatch with _handle_log_complete classifying without having
\* published the invocations first
_on_log_event_classify_first(e) ==
    /\ can_emit(e)
    /\ event' = e
    /\ entry' = [status |-> _status, marker |-> object_exists(done_key)]
    /\ wrote' = "none"
    /\ consulted' = FALSE
    /\ raised' = FALSE
    /\ log_created' = (log_created \/ e = "LOG_CREATED")
    /\ logs_complete' = (e = "LOG_COMPLETE")
    /\ updates' = IF e = "LOG_UPDATED" THEN updates + 1 ELSE updates
    /\ pc' = [pc EXCEPT !["logger"] =
                CASE e = "LOG_CREATED" -> "set_status_acquire"
                  [] e = "LOG_UPDATED" -> "check_for_failure"
                  [] e = "LOG_COMPLETE" -> "check_for_failure"]
    /\ arg' = IF e = "LOG_CREATED"
              THEN [arg EXCEPT !["logger"] = "RUNNING"]
              ELSE arg
    /\ UNCHANGED <<tracker_vars, local_logs, logs, stop_called, store,
                   identity_vars, overrides, reader_vars, history_vars>>

\* the log source calls the registered callback; the match statement
\* enters the handler of the event
_on_log_event(e) ==
    /\ can_emit(e)
    /\ event' = e
    /\ entry' = [status |-> _status, marker |-> object_exists(done_key)]
    /\ wrote' = "none"
    /\ consulted' = FALSE
    /\ raised' = FALSE
    /\ log_created' = (log_created \/ e = "LOG_CREATED")
    /\ logs_complete' = (e = "LOG_COMPLETE")
    /\ updates' = IF e = "LOG_UPDATED" THEN updates + 1 ELSE updates
    /\ pc' = [pc EXCEPT !["logger"] =
                CASE e = "LOG_CREATED" -> "set_status_acquire"
                  [] e = "LOG_UPDATED" -> "check_for_failure"
                  [] e = "LOG_COMPLETE" -> "extract_read"]
    /\ arg' = IF e = "LOG_CREATED"
              THEN [arg EXCEPT !["logger"] = "RUNNING"]
              ELSE arg
    /\ UNCHANGED <<tracker_vars, local_logs, logs, stop_called, store,
                   identity_vars, overrides, reader_vars, history_vars>>

\* set_status: "with self._lock" blocks until the lock is free
set_status_acquire(t) ==
    /\ pc[t] = "set_status_acquire"
    /\ _lock = "free"
    /\ _lock' = t
    /\ pc' = [pc EXCEPT ![t] = "set_status_write"]
    /\ UNCHANGED <<_status, _invocations, arg, handler_vars, logger_vars,
                   store, identity_vars, overrides, reader_vars, history_vars>>

\* set_status refusing to overwrite a terminal status
set_status_monotonic(t) ==
    /\ pc[t] = "set_status_write"
    /\ _lock = t
    /\ _status' = IF has_final_state(_status) THEN _status ELSE arg[t]
    /\ _lock' = "free"
    /\ pc' = [pc EXCEPT ![t] = IF t = "logger" THEN "returned" ELSE "idle"]
    /\ wrote' = IF t = "logger" THEN arg[t] ELSE wrote
    /\ last_writer' = IF t = "logger" THEN event ELSE "caller"
    /\ completions' = IF t = "logger" /\ arg[t] = "COMPLETED"
                      THEN completions + 1 ELSE completions
    /\ window' = [r \in Readers |->
                    IF pc[r] = "status_acquire"
                    THEN window[r] \cup {_status'} ELSE window[r]]
    /\ UNCHANGED <<_invocations, arg, event, local_logs, entry, consulted,
                   raised, logger_vars, store, identity_vars, overrides,
                   reader_vars>>

\* set_status stopping the log source when the forced status is terminal
set_status_and_stop(t) ==
    /\ pc[t] = "set_status_write"
    /\ _lock = t
    /\ _status' = arg[t]
    /\ _lock' = "free"
    /\ pc' = [pc EXCEPT ![t] = IF t = "logger" THEN "returned" ELSE "idle"]
    /\ wrote' = IF t = "logger" THEN arg[t] ELSE wrote
    /\ last_writer' = IF t = "logger" THEN event ELSE "caller"
    /\ completions' = IF t = "logger" /\ arg[t] = "COMPLETED"
                      THEN completions + 1 ELSE completions
    /\ window' = [r \in Readers |->
                    IF pc[r] = "status_acquire"
                    THEN window[r] \cup {arg[t]} ELSE window[r]]
    /\ stop_called' = (stop_called \/ has_final_state(arg[t]))
    /\ UNCHANGED <<_invocations, arg, event, local_logs, entry, consulted,
                   raised, logs, log_created, logs_complete, updates, store,
                   identity_vars, overrides, reader_vars>>

\* set_status: the write under the lock, and the release
set_status(t) ==
    /\ pc[t] = "set_status_write"
    /\ _lock = t
    /\ _status' = arg[t]
    /\ _lock' = "free"
    /\ pc' = [pc EXCEPT ![t] = IF t = "logger" THEN "returned" ELSE "idle"]
    /\ wrote' = IF t = "logger" THEN arg[t] ELSE wrote
    /\ last_writer' = IF t = "logger" THEN event ELSE "caller"
    /\ completions' = IF t = "logger" /\ arg[t] = "COMPLETED"
                      THEN completions + 1 ELSE completions
    /\ window' = [r \in Readers |->
                    IF pc[r] = "status_acquire"
                    THEN window[r] \cup {arg[t]} ELSE window[r]]
    /\ UNCHANGED <<_invocations, arg, event, local_logs, entry, consulted,
                   raised, logger_vars, store, identity_vars, overrides,
                   reader_vars>>

\* the caller forces a status
call_set_status(s) ==
    /\ pc["caller"] = "idle"
    /\ overrides < MaxOverrides
    /\ overrides' = overrides + 1
    /\ arg' = [arg EXCEPT !["caller"] = s]
    /\ pc' = [pc EXCEPT !["caller"] = "set_status_acquire"]
    /\ UNCHANGED <<tracker_vars, handler_vars, logger_vars, store,
                   identity_vars, reader_vars, history_vars>>

\* the two tests in the other order: completion first, then failure
_check_for_failure_after_completion ==
    /\ pc["logger"] = "check_for_failure"
    /\ consulted' = TRUE
    /\ IF object_exists(done_key)
       THEN /\ arg' = [arg EXCEPT !["logger"] = "COMPLETED"]
            /\ pc' = [pc EXCEPT !["logger"] = "set_status_acquire"]
            /\ entry' = entry
       ELSE IF failed_regex_search(logs_content)
       THEN /\ arg' = [arg EXCEPT !["logger"] = "FAILED"]
            /\ pc' = [pc EXCEPT !["logger"] = "set_status_acquire"]
            /\ entry' = entry
       ELSE /\ arg' = arg
            /\ pc' = [pc EXCEPT !["logger"] = "idle"]
            /\ entry' = NoEntry
    /\ UNCHANGED <<tracker_vars, event, local_logs, wrote, raised,
                   logger_vars, store, identity_vars, overrides, reader_vars,
                   history_vars>>

\* the failure check of a LOG_UPDATED handler keeping the verdict "nothing
\* yet" of the previous LOG_UPDATED event instead of looking again
_check_for_failure_cached ==
    /\ pc["logger"] = "check_for_failure"
    /\ IF event = "LOG_UPDATED" /\ updates > 1
       THEN /\ arg' = arg
            /\ pc' = [pc EXCEPT !["logger"] = "idle"]
       ELSE IF failed_regex_search(logs_content)
       THEN /\ arg' = [arg EXCEPT !["logger"] = "FAILED"]
            /\ pc' = [pc EXCEPT !["logger"] = "set_status_acquire"]
       ELSE /\ arg' = arg
            /\ pc' = [pc EXCEPT !["logger"] = "check_for_completion"]
    /\ UNCHANGED <<tracker_vars, handler_vars, logger_vars, store,
                   identity_vars, overrides, reader_vars, history_vars>>

\* if self._check_for_failure(): ... (first test of _handle_log_updated and
\* of _handle_log_complete)
_check_for_failure ==
    /\ pc["logger"] = "check_for_failure"
    /\ IF failed_regex_search(logs_content)
       THEN /\ arg' = [arg EXCEPT !["logger"] = "FAILED"]
            /\ pc' = [pc EXCEPT !["logger"] = "set_status_acquire"]
       ELSE /\ arg' = arg
            /\ pc' = [pc EXCEPT !["logger"] = "check_for_completion"]
    /\ UNCHANGED <<tracker_vars, handler_vars, logger_vars, store,
                   identity_vars, overrides, reader_vars, history_vars>>

\* the completion test negated: COMPLETED when the marker is absent
_check_for_completion_inverted ==
    /\ pc["logger"] = "check_for_completion"
    /\ consulted' = TRUE
    /\ \/ /\ ~object_exists(done_key)
          /\ arg' = [arg EXCEPT !["logger"] = "COMPLETED"]
          /\ pc' = [pc EXCEPT !["logger"] = "set_status_acquire"]
          /\ UNCHANGED <<entry, raised>>
       \/ /\ object_exists(done_key)
          /\ pc' = [pc EXCEPT !["logger"] = "idle"]
          /\ entry' = NoEntry
          /\ UNCHANGED <<arg, raised>>
       \/ /\ pc' = [pc EXCEPT !["logger"] = "idle"]
          /\ entry' = NoEntry
          /\ raised' = TRUE
          /\ arg' = arg
    /\ UNCHANGED <<tracker_vars, event, local_logs, wrote, logger_vars,
                   store, identity_vars, overrides, reader_vars, history_vars>>

\* the completion check with the storage error caught and taken for a
\* present marker
_check_for_completion_swallowing ==
    /\ pc["logger"] = "check_for_completion"
    /\ consulted' = TRUE
    /\ \/ /\ object_exists(done_key)
          /\ arg' = [arg EXCEPT !["logger"] = "COMPLETED"]
          /\ pc' = [pc EXCEPT !["logger"] = "set_status_acquire"]
          /\ UNCHANGED <<entry, raised>>
       \/ /\ ~object_exists(done_key)
          /\ pc' = [pc EXCEPT !["logger"] = "idle"]
          /\ entry' = NoEntry
          /\ UNCHANGED <<arg, raised>>
       \/ /\ arg' = [arg EXCEPT !["logger"] = "COMPLETED"]
          /\ pc' = [pc EXCEPT !["logger"] = "set_status_acquire"]
          /\ raised' = TRUE
          /\ entry' = entry
    /\ UNCHANGED <<tracker_vars, event, local_logs, wrote, logger_vars,
                   store, identity_vars, overrides, reader_vars, history_vars>>

\* elif self._check_for_completion(): ... ; object_exists answers True,
\* answers False (the handler returns), or raises S3ClientError (the
\* exception leaves the handler)
_check_for_completion ==
    /\ pc["logger"] = "check_for_completion"
    /\ consulted' = TRUE
    /\ \/ /\ object_exists(done_key)
          /\ arg' = [arg EXCEPT !["logger"] = "COMPLETED"]
          /\ pc' = [pc EXCEPT !["logger"] = "set_status_acquire"]
          /\ UNCHANGED <<entry, raised>>
       \/ /\ ~object_exists(done_key)
          /\ pc' = [pc EXCEPT !["logger"] = "idle"]
          /\ entry' = NoEntry
          /\ UNCHANGED <<arg, raised>>
       \/ /\ pc' = [pc EXCEPT !["logger"] = "idle"]
          /\ entry' = NoEntry
          /\ raised' = TRUE
          /\ arg' = arg
    /\ UNCHANGED <<tracker_vars, event, local_logs, wrote, logger_vars,
                   store, identity_vars, overrides, reader_vars, history_vars>>

\* _handle_log_updated returning without the self._logger.stop() call
_handle_after_set_status_no_stop ==
    /\ pc["logger"] = "returned"
    /\ pc' = [pc EXCEPT !["logger"] = "idle"]
    /\ entry' = NoEntry
    /\ UNCHANGED <<tracker_vars, arg, event, local_logs, wrote, consulted,
                   raised, logger_vars, store, identity_vars, overrides,
                   reader_vars, history_vars>>

\* every handler calling self._logger.stop() after its set_status call
_handle_after_set_status_always_stop ==
    /\ pc["logger"] = "returned"
    /\ stop_called' = TRUE
    /\ pc' = [pc EXCEPT !["logger"] = "idle"]
    /\ entry' = NoEntry
    /\ UNCHANGED <<tracker_vars, arg, event, local_logs, wrote, consulted,
                   raised, logs, log_created, logs_complete, updates, store,
                   identity_vars, overrides, reader_vars, history_vars>>

\* _handle_log_complete calling self._logger.stop() as _handle_log_updated
\* does
_handle_after_set_status_stop_on_complete ==
    /\ pc["logger"] = "returned"
    /\ stop_called' = (stop_called \/ event \in {"LOG_UPDATED", "LOG_COMPLETE"})
    /\ pc' = [pc EXCEPT !["logger"] = "idle"]
    /\ entry' = NoEntry
    /\ UNCHANGED <<tracker_vars, arg, event, local_logs, wrote, consulted,
                   raised, logs, log_created, logs_complete, updates, store,
                   identity_vars, overrides, reader_vars, history_vars>>

\* what the handler does after its set_status call: _handle_log_updated
\* calls self._logger.stop(), the other two handlers return
_handle_after_set_status ==
    /\ pc["logger"] = "returned"
    /\ stop_called' = (stop_called \/ event = "LOG_UPDATED")
    /\ pc' = [pc EXCEPT !["logger"] = "idle"]
    /\ entry' = NoEntry
    /\ UNCHANGED <<tracker_vars, arg, event, local_logs, wrote, consulted,
                   raised, logs, log_created, logs_complete, updates, store,
                   identity_vars, overrides, reader_vars, history_vars>>

\* _extract_invocations: logs_content = self._logger.logs_content
extract_read ==
    /\ pc["logger"] = "extract_read"
    /\ local_logs' = logs_content
    /\ pc' = [pc EXCEPT !["logger"] = "extract_acquire"]
    /\ UNCHANGED <<tracker_vars, arg, event, entry, wrote, consulted, raised,
                   logger_vars, store, identity_vars, overrides, reader_vars,
                   history_vars>>

\* _extract_invocations: with self._lock
extract_acquire ==
    /\ pc["logger"] = "extract_acquire"
    /\ _lock = "free"
    /\ _lock' = "logger"
    /\ pc' = [pc EXCEPT !["logger"] = "extract_write"]
    /\ UNCHANGED <<_status, _invocations, arg, handler_vars, logger_vars,
                   store, identity_vars, overrides, reader_vars, history_vars>>

\* _extract_invocations: the assignment under the lock, and the release
_extract_invocations ==
    /\ pc["logger"] = "extract_write"
    /\ _lock = "logger"
    /\ _invocations' = Some(extract_invocations(workflow_name, local_logs))
    /\ _lock' = "free"
    /\ local_logs' = <<>>
    /\ pc' = [pc EXCEPT !["logger"] = "check_for_failure"]
    /\ UNCHANGED <<_status, arg, event, entry, wrote, consulted, raised,
                   logger_vars, store, identity_vars, overrides, reader_vars,
                   history_vars>>

\* a reader calls the status property
status_call(r) ==
    /\ pc[r] = "idle"
    /\ pc' = [pc EXCEPT ![r] = "status_acquire"]
    /\ window' = [window EXCEPT ![r] = {_status}]
    /\ UNCHANGED <<tracker_vars, arg, handler_vars, logger_vars, store,
                   identity_vars, overrides, reader_vars, last_writer,
                   completions>>

\* status: with self._lock
status_acquire(r) ==
    /\ pc[r] = "status_acquire"
    /\ _lock = "free"
    /\ _lock' = r
    /\ pc' = [pc EXCEPT ![r] = "status_read"]
    /\ UNCHANGED <<_status, _invocations, arg, handler_vars, logger_vars,
                   store, identity_vars, overrides, reader_vars, history_vars>>

\* status answering from the value the reader got before, once it has one
status_cached(r) ==
    /\ pc[r] = "status_read"
    /\ _lock = r
    /\ seen' = [seen EXCEPT ![r] =
                  IF seen[r] = "unread" THEN _status ELSE seen[r]]
    /\ _lock' = "free"
    /\ pc' = [pc EXCEPT ![r] = "idle"]
    /\ window' = [window EXCEPT ![r] = {}]
    /\ UNCHANGED <<_status, _invocations, arg, handler_vars, logger_vars,
                   store, identity_vars, overrides, seen_invocations,
                   last_writer, completions>>

\* status: return self._status, and the release
status(r) ==
    /\ pc[r] = "status_read"
    /\ _lock = r
    /\ seen' = [seen EXCEPT ![r] = _status]
    /\ _lock' = "free"
    /\ pc' = [pc EXCEPT ![r] = "idle"]
    /\ window' = [window EXCEPT ![r] = {}]
    /\ UNCHANGED <<_status, _invocations, arg, handler_vars, logger_vars,
                   store, identity_vars, overrides, seen_invocations,
                   last_writer, completions>>

\* invocations: with self._lock
invocations_acquire(r) ==
    /\ pc[r] = "idle"
    /\ _lock = "free"
    /\ _lock' = r
    /\ pc' = [pc EXCEPT ![r] = "invocations_read"]
    /\ UNCHANGED <<_status, _invocations, arg, handler_vars, logger_vars,
                   store, identity_vars, overrides, reader_vars, history_vars>>

\* invocations: None, or a copy of the set, and the release
invocations(r) ==
    /\ pc[r] = "invocations_read"
    /\ _lock = r
    /\ seen_invocations' = [seen_invocations EXCEPT ![r] = Some(_invocations)]
    /\ _lock' = "free"
    /\ pc' = [pc EXCEPT ![r] = "idle"]
    /\ UNCHANGED <<_status, _invocations, arg, handler_vars, logger_vars,
                   store, identity_vars, overrides, seen, history_vars>>

----------------------------------------------------------------------------
(* Specifications *)

\* the log source's thread: retrieval, event delivery and the handlers
LoggerThread ==
    \/ logger_fetch
    \/ \E e \in LogEvent : _on_log_event(e)
    \/ set_status_acquire("logger")
    \/ set_status("logger")
    \/ _check_for_failure
    \/ _check_for_completion
    \/ _handle_after_set_status
    \/ extract_read
    \/ extract_acquire
    \/ _extract_invocations

\* the thread that forces a status
CallerThread ==
    \/ \E s \in FunctionStatus : call_set_status(s)
    \/ set_status_acquire("caller")
    \/ set_status("caller")

\* events and overrides
Next ==
    \/ LoggerThread
    \/ put_marker
    \/ CallerThread

Spec == Init /\ [][Next]_vars

\* events, overrides and one thread polling status
NextPolling ==
    \/ LoggerThread
    \/ put_marker
    \/ CallerThread
    \/ status_call("r1")
    \/ status_acquire("r1")
    \/ status("r1")

SpecPolling == Init /\ [][NextPolling]_vars

\* events (the single writer) and the reader threads
NextReaders ==
    \/ LoggerThread
    \/ put_marker
    \/ \E r \in Readers : status_call(r)
    \/ \E r \in Readers : status_acquire(r)
    \/ \E r \in Readers : status(r)
    \/ \E r \in Readers : invocations_acquire(r)
    \/ \E r \in Readers : invocations(r)

SpecReaders == Init /\ [][NextReaders]_vars

\* events handled over a log that holds any of the texts
NextTexts ==
    \/ LoggerThread
    \/ put_marker

SpecTexts == InitTexts /\ [][NextTexts]_vars

\* events handled by a tracker of any of the functions
NextKeys ==
    \/ LoggerThread
    \/ put_marker

SpecKeys == InitKeys /\ [][NextKeys]_vars

----------------------------------------------------------------------------
(* Steps the properties speak about *)

\* the log source's thread performs the write of a handler's set_status call
LoggerWrites ==
    pc["logger"] = "set_status_write" /\ pc'["logger"] = "returned"

\* the handler returns to the log source, or its exception reaches it
HandlerReturns == pc["logger"] # "idle" /\ pc'["logger"] = "idle"

\* the caller's set_status call returns
CallerReturns == pc["caller"] = "set_status_write" /\ pc'["caller"] = "idle"

\* any step of the caller's set_status call
CallerSteps == pc'["caller"] # pc["caller"]

\* a reader's status read returns
StatusReturns(r) == pc[r] = "status_read" /\ pc'[r] = "idle"

----------------------------------------------------------------------------
(* Properties *)

\* C1: once _status holds a terminal value, and no set_status call by the
\* caller has changed it since the handler was entered, the handler's write
\* leaves it as it is.
C1_TerminalStatusIsKept ==
    [][(LoggerWrites /\ entry.status = _status /\ has_final_state(_status))
         => _status' = _status]_vars

\* C2: a LOG_UPDATED or LOG_COMPLETE handler entered with the marker in the
\* store and the failure pattern in the log returns having written FAILED
\* (which is the status unless the caller has overwritten it since) and
\* without having called object_exists.
C2_FailureBeforeCompletion ==
    [][(/\ HandlerReturns
        /\ event \in {"LOG_UPDATED", "LOG_COMPLETE"}
        /\ entry.marker
        /\ failed_regex_search(logs_content))
         => (/\ wrote' = "FAILED"
             /\ ~consulted'
             /\ (last_writer' = event => _status' = "FAILED"))]_vars

C2_Witness ==
    /\ pc["logger"] = "returned"
    /\ event = "LOG_UPDATED"
    /\ entry.marker
    /\ wrote = "FAILED"
    /\ _status = "FAILED"
    /\ ~consulted

C4_TerminalImpliesStopped == has_final_state(_status) => stop_called

\* C4 amended: once a LOG_UPDATED handler that wrote FAILED or COMPLETED has
\* returned, stop has been called; and stop is called by nothing else.
C4_StoppedAfterUpdatedVerdict ==
    /\ [](/\ pc["logger"] = "idle"
          /\ event = "LOG_UPDATED"
          /\ wrote \in {"FAILED", "COMPLETED"}
          => stop_called)
    /\ [][(stop_called' /\ ~stop_called)
            => (/\ pc["logger"] = "returned"
                /\ event = "LOG_UPDATED"
                /\ wrote \in {"FAILED", "COMPLETED"})]_vars

C4_Witness ==
    /\ pc["logger"] = "idle"
    /\ event = "LOG_UPDATED"
    /\ wrote = "FAILED"
    /\ _status = "FAILED"
    /\ stop_called

\* C5 as stated: with no override, _status never goes from PENDING to a
\* terminal value in one step and leaves RUNNING only for a terminal value.
C5_PendingRunningTerminal ==
    [][overrides' = 0
         => (/\ ~(_status = "PENDING" /\ has_final_state(_status'))
             /\ (_status = "RUNNING" /\ _status' # "RUNNING"
                   => has_final_state(_status')))]_vars

\* C5 amended: with no override, _status leaves PENDING for RUNNING, or,
\* when no LOG_CREATED event was delivered, for FAILED or COMPLETED; it
\* becomes RUNNING only in the LOG_CREATED handler; it leaves RUNNING only
\* for a terminal value.
C5_PendingRunningTerminalWhenCreated ==
    [][overrides' = 0
         => (/\ (_status = "PENDING" /\ _status' # "PENDING")
                  => (\/ _status' = "RUNNING"
                      \/ (~log_created /\ _status' \in {"FAILED", "COMPLETED"}))
             /\ (_status # "RUNNING" /\ _status' = "RUNNING")
                  => event = "LOG_CREATED"
             /\ (_status = "RUNNING" /\ _status' # "RUNNING")
                  => has_final_state(_status'))]_vars

C5_Witness ==
    /\ overrides = 0
    /\ log_created
    /\ last_writer = "LOG_COMPLETE"
    /\ entry.status = "RUNNING"
    /\ _status = "COMPLETED"

\* C6: the write of a handler stores the handler's value whatever _status
\* holds, a forced terminal value included: RUNNING for LOG_CREATED, FAILED
\* for a failure verdict, COMPLETED for a completion verdict.
C6_EventsOverwriteForcedStatus ==
    [][LoggerWrites
         => (/\ _status' = arg["logger"]
             /\ arg["logger"] =
                  IF event = "LOG_CREATED" THEN "RUNNING"
                  ELSE IF failed_regex_search(logs_content) THEN "FAILED"
                  ELSE "COMPLETED")]_vars

\* a terminal status forced after the handler was entered, overwritten by
\* the handler's verdict
C6_Witness ==
    /\ pc["logger"] = "returned"
    /\ event = "LOG_UPDATED"
    /\ entry.status = "PENDING"
    /\ pc["caller"] = "idle"
    /\ overrides >= 1
    /\ arg["caller"] \in {"NOT_INVOKED", "SKIPPED", "TIMEOUT"}
    /\ last_writer = "LOG_UPDATED"
    /\ _status \in {"FAILED", "COMPLETED"}

\* C7: no step of a set_status call changes the invocation set or the log
\* source; when the call returns _status is its argument; a status read
\* that returns while the caller's write is the last one returns that
\* argument.
C7_OverrideObserved ==
    [][/\ CallerSteps => UNCHANGED <<_invocations, logger_vars>>
       /\ CallerReturns => _status' = arg["caller"]
       /\ \A r \in Readers :
            (/\ StatusReturns(r)
             /\ last_writer = "caller"
             /\ pc["caller"] = "idle")
              => seen'[r] = arg["caller"]]_vars

C7_Witness ==
    /\ seen["r1"] = "SKIPPED"
    /\ event = "none"
    /\ last_writer = "caller"
    /\ pc["caller"] = "idle"
    /\ _invocations = None
    /\ ~stop_called

\* C8: a status read returns a value _status held at some moment between
\* the call and the return (window[r] holds exactly those values); hence
\* every value read is the status after a prefix of the applied writes, and
\* a reader's next read, which begins after this return, cannot go back to
\* an earlier prefix.
C8_ReadsAreLinearizable ==
    [][\A r \in Readers : StatusReturns(r) => seen'[r] \in window[r]]_vars

C8_Witness ==
    /\ pc["r1"] = "status_read"
    /\ Cardinality(window["r1"]) >= 2
    /\ seen["r1"] = "PENDING"
    /\ seen["r2"] \in FunctionStatus
    /\ seen["r2"] # _status

\* C9: _invocations is not None only once the LOG_COMPLETE handler has run
\* _extract_invocations, and only that step changes it.
C9_InvocationsUnknownUntilComplete ==
    /\ [](_invocations # None => (logs_complete /\ event = "LOG_COMPLETE"))
    /\ [][_invocations' # _invocations
            => (event = "LOG_COMPLETE" /\ pc["logger"] = "extract_write")]_vars

\* the known empty set, after a LOG_COMPLETE on a log with no invocation
C9_Witness ==
    /\ _invocations = Some({})
    /\ event = "LOG_COMPLETE"
    /\ logs # <<>>

\* C10: before any event and any override, _status is PENDING and
\* _invocations is None.
C10_InitialState ==
    (event = "none" /\ overrides = 0)
      => (_status = "PENDING" /\ _invocations = None)

C10_Witness ==
    /\ event = "none"
    /\ overrides = 0
    /\ logs # <<>>
    /\ store # {}
    /\ _status = "PENDING"
    /\ _invocations = None

\* a step taken while _handle_log_created runs, its entry included
InLogCreated ==
    \/ event' = "LOG_CREATED" /\ pc'["logger"] # "idle"
    \/ event = "LOG_CREATED" /\ pc["logger"] # "idle"

\* C11: the LOG_CREATED handler, writing while _status is PENDING, makes it
\* RUNNING, which is no terminal state; while the handler runs _invocations
\* stays None and stop is not called on the log source.
C11_CreatedSetsRunning ==
    /\ [][(LoggerWrites /\ event = "LOG_CREATED" /\ _status = "PENDING")
            => (_status' = "RUNNING" /\ ~has_final_state(_status'))]_vars
    /\ [][InLogCreated
            => (/\ _invocations = None
                /\ _invocations' = None
                /\ ~stop_called
                /\ ~stop_called')]_vars

\* _handle_log_created has written RUNNING over PENDING
C11_Witness ==
    /\ event = "LOG_CREATED"
    /\ pc["logger"] = "returned"
    /\ entry.status = "PENDING"
    /\ wrote = "RUNNING"
    /\ _status = "RUNNING"
    /\ _invocations = None
    /\ ~stop_called

\* _extract_invocations performs its write
ExtractionWrites ==
    pc["logger"] = "extract_write" /\ pc'["logger"] # "extract_write"

\* the names a line announces after the scheduler's full marker
\* "[scheduler.py] GitHub Action: Successfully invoked: ", the workflow
\* prefix "wf-" taken off
SchedulerInvoked(l) ==
    CASE l = "invoked" -> {<<"t", "a">>}
      [] l = "invoked_bare" -> {<<"t", "b">>}
      [] l = "invoked_dot" -> {<<"t", "e">>}
      [] OTHER -> {}

\* the names a line announces after the words "Successfully invoked: "
AnyInvoked(l) ==
    IF l = "invoked_other" THEN {<<"t", "c">>} ELSE SchedulerInvoked(l)

\* C12 as stated: the extraction at LOG_COMPLETE publishes exactly the
\* names that follow "Successfully invoked: " in the lines of the log,
\* duplicates collapsed, the prefix "wf-" stripped where present; never None.
C12_ExtractsInvokedTokens ==
    [][ExtractionWrites
         => _invocations' =
              Some(UNION {AnyInvoked(logs[i]) : i \in 1..Len(logs)})]_vars

\* C12 amended: the extraction at LOG_COMPLETE publishes exactly the names
\* (a letter, then at least one letter, digit or hyphen) that follow the full
\* marker "[scheduler.py] GitHub Action: Successfully invoked: ", duplicates
\* collapsed, the prefix "wf-" stripped where present; never None.
C12_ExtractsSchedulerInvocations ==
    [][ExtractionWrites
         => _invocations' =
              Some(UNION {SchedulerInvoked(logs[i]) : i \in 1..Len(logs)})]_vars

\* the same prefixed name announced twice gives one stripped name
C12_Witness ==
    /\ logs = <<"invoked", "invoked">>
    /\ event = "LOG_COMPLETE"
    /\ _invocations = Some({<<"t", "a">>})

\* C13: when object_exists raises while a LOG_UPDATED or LOG_COMPLETE event
\* is handled, the handler is left with the error, having written no status
\* and called no stop; _status differs from its value at the handler's entry
\* only if the caller has written it.
C13_StorageErrorPropagates ==
    [][(HandlerReturns /\ raised')
         => (/\ event \in {"LOG_UPDATED", "LOG_COMPLETE"}
             /\ pc["logger"] = "check_for_completion"
             /\ wrote' = "none"
             /\ _status' = _status
             /\ (_status' # entry.status => last_writer' = "caller")
             /\ ~stop_called')]_vars

\* the error reached the log source although the marker is there
C13_Witness ==
    /\ raised
    /\ pc["logger"] = "idle"
    /\ event = "LOG_UPDATED"
    /\ object_exists(done_key)
    /\ wrote = "none"
    /\ _status = "RUNNING"
    /\ ~stop_called

\* a name with "(" replaced by "." and ")" removed
ParenFree(name) == replace(replace(name, "(", <<".">>), ")", <<>>)

\* the two keys the specification gives as examples, and the start of a key
\* under the folder d\r
KeyOf_f ==
    <<"r", "u", "n", "1", "/", "f", "u", "n", "c", "t", "i", "o", "n", "_",
      "c", "o", "m", "p", "l", "e", "t", "i", "o", "n", "s", "/", "f", ".",
      "d", "o", "n", "e">>
KeyOf_f2 ==
    <<"r", "u", "n", "1", "/", "f", "u", "n", "c", "t", "i", "o", "n", "_",
      "c", "o", "m", "p", "l", "e", "t", "i", "o", "n", "s", "/", "f", ".",
      "2", ".", "d", "o", "n", "e">>
KeyStart_dr == <<"d", "/", "r", "/">>

\* what the claim says of every derived key but the collisions
C14_KeyExamples ==
    /\ (invocation_folder = <<"r", "u", "n", "1">> /\ function_name = <<"f">>)
         => done_key = KeyOf_f
    /\ (invocation_folder = <<"r", "u", "n", "1">>
          /\ function_name = <<"f", "(", "2", ")">>)
         => done_key = KeyOf_f2
    /\ \A i \in 1..Len(done_key) : done_key[i] # "\\"
    /\ invocation_folder = <<"d", "\\", "r">>
         => Slice(done_key, 1, 4) = KeyStart_dr

\* C14 as stated: done_key of run1 and f is run1/function_completions/f.done,
\* of run1 and f(2) is run1/function_completions/f.2.done, it holds no
\* backslash, and another name has the same key only if the two names are
\* equal after replacing "(" by "." and removing ")".
C14_KeyCollidesOnlyOnParens ==
    /\ C14_KeyExamples
    /\ \A n \in Names :
          done_key_of(invocation_folder, n) = done_key
            => ParenFree(n) = ParenFree(function_name)

\* C14 amended: the same, but two names have the same key only if they are
\* equal after replacing "(" by ".", removing ")" and turning backslashes
\* into forward slashes.
C14_KeyCollidesOnlyOnParensAndSlashes ==
    /\ C14_KeyExamples
    /\ \A n \in Names :
          done_key_of(invocation_folder, n) = done_key
            => get_s3_path(ParenFree(n)) = get_s3_path(ParenFree(function_name))

\* the tracker of f.2 completes on the marker of f(2): both have one key
C14_Witness ==
    /\ function_name = <<"f", ".", "2">>
    /\ invocation_folder = <<"r", "u", "n", "1">>
    /\ done_key = KeyOf_f2
    /\ done_key \in store
    /\ wrote = "COMPLETED"

\* _check_for_failure returns to the handler
FailureChecked ==
    pc["logger"] = "check_for_failure" /\ pc'["logger"] # "check_for_failure"

\* the lines that hold "[", one or more digits or dots, then "] [ERROR]":
\* [1.2] [ERROR] x, ab [..] [ERROR] and [x[12] [ERROR]; the other lines have
\* no opening bracket, an empty timestamp, a letter in it, or no error marker
ErrorLines == {"error", "dots_ts", "nested_ts"}

\* C15: the failure check answers true (the handler goes on to write FAILED)
\* exactly when some line of the log holds "[", one or more digits or dots,
\* then "] [ERROR]", at whatever position; otherwise it answers false and
\* the handler goes on to the completion check.
C15_FailureCheckMatchesPattern ==
    [][FailureChecked
         => IF \E i \in 1..Len(logs) : logs[i] \in ErrorLines
            THEN pc'["logger"] = "set_status_acquire"
                 /\ arg'["logger"] = "FAILED"
            ELSE pc'["logger"] = "check_for_completion"]_vars

\* a malformed line first, then the pattern in the middle of a line
C15_Witness ==
    /\ logs = <<"nondigit_ts", "dots_ts">>
    /\ event = "LOG_UPDATED"
    /\ wrote = "FAILED"

\* C16: whatever status the tracker holds, has_final_state is true of it
\* exactly if it is COMPLETED, FAILED, NOT_INVOKED, SKIPPED or TIMEOUT, false
\* exactly if it is PENDING, INVOKED or RUNNING, and has_completed implies
\* has_final_state.
C16_FinalStates ==
    /\ _status \in FunctionStatus
    /\ has_final_state(_status)
         <=> _status \in {"COMPLETED", "FAILED", "NOT_INVOKED", "SKIPPED",
                          "TIMEOUT"}
    /\ ~has_final_state(_status)
         <=> _status \in {"PENDING", "INVOKED", "RUNNING"}
    /\ has_completed(_status) => has_final_state(_status)

\* a status only set_status gives, final without being a completion
C16_Witness ==
    /\ _status = "TIMEOUT"
    /\ last_writer = "caller"
    /\ has_final_state(_status)
    /\ ~has_completed(_status)

\* the log source's thread is about to call, or is inside, a collaborator
\* on behalf of the tracker: the logs_content read of _check_for_failure or
\* of _extract_invocations, object_exists, or the stop() that follows a
\* handler's set_status
InCollaboratorCall ==
    pc["logger"] \in {"check_for_failure", "check_for_completion",
                      "extract_read", "returned"}

\* C17: whenever the handler's thread is in a call of object_exists, of
\* logs_content or of stop, it does not hold self._lock: the lock is free or
\* held by a reader, so no reader waits for the collaborator.
C17_NoLockAcrossCollaborator ==
    InCollaboratorCall => (_lock # "logger" /\ _lock \in {"free"} \cup Readers)

\* a reader holds the lock, another one waits for it, while the handler is
\* in object_exists
C17_Witness ==
    /\ pc["logger"] = "check_for_completion"
    /\ _lock = "r1"
    /\ pc["r1"] = "status_read"
    /\ pc["r2"] = "status_acquire"

\* C18 as stated: when _handle_log_complete returns, stop has not been
\* called, _invocations is known, and the handler has written FAILED if the
\* log holds the failure pattern, else COMPLETED if the marker exists, else
\* nothing.
C18_CompleteClassifiesWithoutStop ==
    [][(HandlerReturns /\ event = "LOG_COMPLETE")
         => (/\ ~stop_called'
             /\ _invocations' # None
             /\ wrote' = IF failed_regex_search(logs_content) THEN "FAILED"
                         ELSE IF object_exists(done_key) THEN "COMPLETED"
                         ELSE "none")]_vars

\* C18 amended: the same, but the handler writes COMPLETED only if
\* object_exists answers; if it raises, the handler has written nothing.
C18_CompleteClassifiesWithoutStopUnlessRaised ==
    [][(HandlerReturns /\ event = "LOG_COMPLETE")
         => (/\ ~stop_called'
             /\ _invocations' # None
             /\ wrote' = IF failed_regex_search(logs_content) THEN "FAILED"
                         ELSE IF raised' THEN "none"
                         ELSE IF object_exists(done_key) THEN "COMPLETED"
                         ELSE "none")]_vars

\* _handle_log_complete has written COMPLETED and returned without stop
C18_Witness ==
    /\ event = "LOG_COMPLETE"
    /\ pc["logger"] = "idle"
    /\ wrote = "COMPLETED"
    /\ _invocations # None
    /\ ~stop_called

\* a LOG_UPDATED handler that found neither the failure pattern nor the
\* marker returns having written nothing, without stop, _invocations None
UpdatedWithoutVerdict ==
    (/\ HandlerReturns
     /\ event = "LOG_UPDATED"
     /\ ~failed_regex_search(logs_content)
     /\ ~object_exists(done_key))
      => (/\ wrote' = "none"
          /\ _status' = _status
          /\ ~stop_called'
          /\ _invocations = None
          /\ _invocations' = None)

InvocationsReturns(r) == pc[r] = "invocations_read" /\ pc'[r] = "idle"

\* C20: once _handle_log_complete has written the status, _invocations is
\* known, so a reader that has seen the status this handler wrote and then
\* reads invocations gets a set, not None.
C20_InvocationsBeforeFinalStatus ==
    /\ [](last_writer = "LOG_COMPLETE" => _invocations # None)
    /\ [][\A r \in Readers :
            (/\ InvocationsReturns(r)
             /\ last_writer = "LOG_COMPLETE"
             /\ seen[r] = _status)
              => seen_invocations'[r] \notin {None, Some(None)}]_vars

\* between the two lock acquisitions of _handle_log_complete a reader has
\* read a known invocation set and the status from before the classification
C20_Witness ==
    /\ event = "LOG_COMPLETE"
    /\ pc["logger"] = "set_status_acquire"
    /\ _lock = "free"
    /\ _status = "RUNNING"
    /\ pc["r1"] = "idle"
    /\ seen["r1"] = "RUNNING"
    /\ seen_invocations["r1"] = Some(_invocations)
    /\ _invocations # None

====
